---- MODULE Spec2Model ----
(***************************************************************************)
(* Model of the Weltrade synthetic-index scanner (src/syntx_scanner.py):   *)
(* the signal detector compute_signal, the risk annotator calculate_sl_tp  *)
(* and the polling loop of main with its per-symbol seen map.              *)
(*                                                                         *)
(* Numbers.  The program works on floats; the model works on exact         *)
(* rationals held as integers:                                             *)
(*   - a close is an integer number of price ticks (TicksPerUnit ticks =   *)
(*     1.0), so 100.0 is 100 * TicksPerUnit;                               *)
(*   - a percent change c[i]/c[i-1] - 1 is held multiplied by PctScale;    *)
(*     the frames the model draws keep every close a divisor of PctScale   *)
(*     times a common unit, so the scaled value is an exact integer;       *)
(*   - moving averages and the standard deviation are never divided out:   *)
(*     every comparison the code makes is cross-multiplied;                *)
(*   - stop-loss and take-profit are integers in units of 10^-5, the       *)
(*     precision round(x, 5) leaves.                                       *)
(***************************************************************************)
EXTENDS Integers, Sequences, FiniteSets, TLC

VARIABLES
    pc,          \* position of the process in main / of the detector run
    symbols,     \* main: the resolved symbol list
    i,           \* main: index in symbols of the symbol being processed
    seen,        \* main: seen[s], None or Some(stamp string)
    df,          \* the frame last fetched (columns time, close)
    sig,         \* the result of compute_signal on df, None or Some(signal)
    formatted,   \* the message last built by format_signal, None or Some(msg)
    session,     \* MT5 session: "none", "open", "closed"
    shutdowns,   \* number of mt5.shutdown() calls made
    exitCode,    \* None while running, Some(code) once the process has ended
    creds,       \* whether TELEGRAM_TOKEN and TELEGRAM_CHAT are both set
    clock,       \* time of the newest bar the terminal has
    pass,        \* number of the current pass of the while loop
    calls,       \* calls[s]: send_telegram invocations made for symbol s
    sendOk,      \* return value of the last send_telegram call
    hist         \* history: what happened, per symbol and for the process

vars == <<pc, symbols, i, seen, df, sig, formatted, session, shutdowns,
          exitCode, creds, clock, pass, calls, sendOk, hist>>

-----------------------------------------------------------------------------
(* Program constants (src/syntx_scanner.py lines 12-18).                   *)

MA_FAST == 5
MA_SLOW == 15
SPIKE_MULTIPLIER == 2
\* MIN_SPIKE_PCT = 0.0005 = MIN_SPIKE_PCT_NUM / MIN_SPIKE_PCT_DEN
MIN_SPIKE_PCT_NUM == 5
MIN_SPIKE_PCT_DEN == 10000
\* RISK_PCT = 0.005 = RISK_PCT_NUM / RISK_PCT_DEN
RISK_PCT_NUM == 5
RISK_PCT_DEN == 1000
\* round(x, 5): results are integers in units of 10^-ROUND_DIGITS
ROUND_DIGITS == 5

(* Fixed-point scales of the model.                                        *)
\* a close is held in ticks of 10^-4
TicksPerUnit == 10000
\* result units (10^-ROUND_DIGITS) per tick
OutPerTick == (10 ^ ROUND_DIGITS) \div TicksPerUnit
\* the pct column is held multiplied by 12
PctScale == 12

(* Bounds.                                                                 *)
MaxLevel == 3        \* price levels are the divisors of PctScale up to this
MaxTail == 4         \* bars at the end of a frame that move freely
MaxExtra == 1        \* frames have up to MA_SLOW + 5 + MaxExtra bars
MaxCatalog == 2      \* instruments in the broker's catalog
MaxClock == 2        \* bar times run from 1 to MaxClock
MaxPasses == 2       \* passes of the polling loop that are followed
MaxEntry == 30       \* entry prices of the annotator: 1.0001 up to this many ticks above 1.0

None == <<>>
Some(x) == <<x>>

-----------------------------------------------------------------------------
(* Frames: the DataFrame get_bars returns, as its two columns that are     *)
(* read.  A frame of n bars ending at time t holds the times t-n+1 .. t.   *)

EmptyFrame == [time |-> <<>>, close |-> <<>>]

MkFrame(closes, tEnd) ==
    [time  |-> [k \in 1..Len(closes) |-> tEnd - Len(closes) + k],
     close |-> closes]

Levels == {k \in 1..MaxLevel : PctScale % k = 0}

\* the closes of n bars: flat at base, then a tail of free levels, in unit u
ClosesOf(n, base, tail, u) ==
    [k \in 1..n |->
        IF k <= n - Len(tail) THEN u * base ELSE u * tail[k - (n - Len(tail))]]

Min(a, b) == IF a <= b THEN a ELSE b

Abs(a) == IF a >= 0 THEN a ELSE -a

ClosesOfLen(n, maxTail, units) ==
    {ClosesOf(n, b, t, u) :
        b \in Levels, u \in units, t \in [1..Min(maxTail, n) -> Levels]}

CloseSeqs(lens, maxTail, units) ==
    UNION {ClosesOfLen(n, maxTail, units) : n \in lens}

-----------------------------------------------------------------------------
(* compute_signal (lines 57-82).                                           *)

RECURSIVE SumTo(_, _, _)
\* f[lo] + ... + f[hi]
SumTo(f, lo, hi) == IF lo > hi THEN 0 ELSE f[hi] + SumTo(f, lo, hi - 1)

\* rolling(w).sum() at bar k; defined (not NaN) when k >= w
RollSum(c, w, k) == SumTo(c, k - w + 1, k)

\* ma_fast > ma_slow at bar k: RollSum/MA_FAST > RollSum/MA_SLOW
FastAbove(c, k) == RollSum(c, MA_FAST, k) * MA_SLOW > RollSum(c, MA_SLOW, k) * MA_FAST

FastBelow(c, k) == RollSum(c, MA_FAST, k) * MA_SLOW < RollSum(c, MA_SLOW, k) * MA_FAST

\* pct_change(): PctScale * (c[k]/c[k-1] - 1), for k >= 2 (bar 1 is NaN)
Pct(c, k) == (PctScale * (c[k] - c[k - 1])) \div c[k - 1]

\* the frames of the model keep Pct exact
PctExact(c) ==
    \A k \in 2..Len(c) : c[k - 1] > 0 /\ (PctScale * (c[k] - c[k - 1])) % c[k - 1] = 0

PctCol(c) == [k \in 2..Len(c) |-> Pct(c, k)]

PctSqCol(c) == [k \in 2..Len(c) |-> Pct(c, k) * Pct(c, k)]

\* df['pct'].std() is the sample deviation of the m = n-1 values that are
\* not NaN: vol^2 = VarNum / (m * (m-1)), in PctScale^2 units
VarNum(c) ==
    LET m == Len(c) - 1
        s1 == SumTo(PctCol(c), 2, Len(c))
        s2 == SumTo(PctSqCol(c), 2, Len(c))
    IN  m * s2 - s1 * s1

\* abs(last_pct) >= max(MIN_SPIKE_PCT, SPIKE_MULTIPLIER * vol)
IsSpike(c) ==
    LET n == Len(c)
        m == n - 1
        p == Pct(c, n)
    IN  /\ Abs(p) * MIN_SPIKE_PCT_DEN >= MIN_SPIKE_PCT_NUM * PctScale
        /\ p * p * m * (m - 1) >= SPIKE_MULTIPLIER * SPIKE_MULTIPLIER * VarNum(c)

\* ma_fast <= ma_slow, ma_fast >= ma_slow at bar k
FastAtMost(c, k) == RollSum(c, MA_FAST, k) * MA_SLOW <= RollSum(c, MA_SLOW, k) * MA_FAST

FastAtLeast(c, k) == RollSum(c, MA_FAST, k) * MA_SLOW >= RollSum(c, MA_SLOW, k) * MA_FAST

\* buy with the bar before required to be strictly below
IsBuy_Strict(c) == FastAbove(c, Len(c)) /\ FastBelow(c, Len(c) - 1)

\* line 69: buy, and line 70: sell (last = bar n, prev = bar n-1)
IsBuy(c) == FastAbove(c, Len(c)) /\ FastAtMost(c, Len(c) - 1)

IsSell(c) == FastBelow(c, Len(c)) /\ FastAtLeast(c, Len(c) - 1)

\* compute_signal with the crossover checks ahead of the spike check
compute_signal_CrossFirst(d) ==
    LET c == d.close
        n == Len(c)
    IN  IF n < MA_SLOW + 5 THEN None
        ELSE IF IsBuy(c)
             THEN Some([type |-> "BUY", price |-> c[n], time |-> d.time[n]])
        ELSE IF IsSell(c)
             THEN Some([type |-> "SELL", price |-> c[n], time |-> d.time[n]])
        ELSE IF IsSpike(c)
             THEN Some([type  |-> IF Pct(c, n) > 0 THEN "SPIKE_UP" ELSE "SPIKE_DOWN",
                        price |-> c[n], pct |-> Pct(c, n), time |-> d.time[n]])
        ELSE None

\* compute_signal asking for MA_SLOW bars only
compute_signal_ShortGuard(d) ==
    LET c == d.close
        n == Len(c)
    IN  IF n < MA_SLOW THEN None
        ELSE IF IsSpike(c)
             THEN Some([type  |-> IF Pct(c, n) > 0 THEN "SPIKE_UP" ELSE "SPIKE_DOWN",
                        price |-> c[n], pct |-> Pct(c, n), time |-> d.time[n]])
        ELSE IF IsBuy(c)
             THEN Some([type |-> "BUY", price |-> c[n], time |-> d.time[n]])
        ELSE IF IsSell(c)
             THEN Some([type |-> "SELL", price |-> c[n], time |-> d.time[n]])
        ELSE None

compute_signal(d) ==
    LET c == d.close
        n == Len(c)
    IN  IF n < MA_SLOW + 5 THEN None
        ELSE IF IsSpike(c)
             THEN Some([type  |-> IF Pct(c, n) > 0 THEN "SPIKE_UP" ELSE "SPIKE_DOWN",
                        price |-> c[n], pct |-> Pct(c, n), time |-> d.time[n]])
        ELSE IF IsBuy(c)
             THEN Some([type |-> "BUY", price |-> c[n], time |-> d.time[n]])
        ELSE IF IsSell(c)
             THEN Some([type |-> "SELL", price |-> c[n], time |-> d.time[n]])
        ELSE None

-----------------------------------------------------------------------------
(* calculate_sl_tp (lines 85-95) and format_signal (lines 98-107).         *)

\* round(e * k / d, 5) for e in ticks, in result units: the nearest integers
\* to e*k/d.  Where e*k/d lies exactly halfway in decimal, the float product
\* lies a rounding error to one side or the other, so both neighbours are
\* possible results.
Round5(e, k, d) ==
    LET whole == (e \div d) * k + ((e % d) * k) \div d
        rest  == ((e % d) * k) % d
    IN  IF 2 * rest < d THEN {whole}
        ELSE IF 2 * rest > d THEN {whole + 1}
        ELSE {whole, whole + 1}

\* calculate_sl_tp with the take-profit one RISK_PCT away, like the stop-loss
calculate_sl_tp_SingleRisk(signal, d) ==
    LET entry == d.close[Len(d.close)]
        one   == RISK_PCT_DEN
        r     == RISK_PCT_NUM
    IN  IF signal.type \in {"BUY", "SPIKE_UP"}
        THEN Round5(entry, OutPerTick * (one - r), one)
                 \X Round5(entry, OutPerTick * (one + r), one)
        ELSE IF signal.type \in {"SELL", "SPIKE_DOWN"}
        THEN Round5(entry, OutPerTick * (one + r), one)
                 \X Round5(entry, OutPerTick * (one - r), one)
        ELSE Round5(entry, OutPerTick, 1) \X Round5(entry, OutPerTick, 1)

\* the set of (sl, tp) pairs the call can return
calculate_sl_tp(signal, d) ==
    LET entry == d.close[Len(d.close)]
        one   == RISK_PCT_DEN
        r     == RISK_PCT_NUM
    IN  IF signal.type \in {"BUY", "SPIKE_UP"}
        THEN Round5(entry, OutPerTick * (one - r), one)
                 \X Round5(entry, OutPerTick * (one + r * 2), one)
        ELSE IF signal.type \in {"SELL", "SPIKE_DOWN"}
        THEN Round5(entry, OutPerTick * (one + r), one)
                 \X Round5(entry, OutPerTick * (one - r * 2), one)
        ELSE Round5(entry, OutPerTick, 1) \X Round5(entry, OutPerTick, 1)

\* the text, as the record of the values it prints
format_signal(symbol, s, d) ==
    {[symbol |-> symbol, type |-> s.type, entry |-> s.price,
      sl |-> lv[1], tp |-> lv[2],
      pct |-> IF "pct" \in DOMAIN s THEN Some(s.pct) ELSE None,
      time |-> s.time] : lv \in calculate_sl_tp(s, d)}

-----------------------------------------------------------------------------
(* The detector and the annotator applied to drawn frames.                 *)

SignalTypes == {"SPIKE_UP", "SPIKE_DOWN", "BUY", "SELL"}

\* a signal of any type on the last bar of d (HOLD stands for any other type)
AnySignals(d) ==
    {[type |-> ty, price |-> d.close[Len(d.close)], time |-> d.time[Len(d.close)]] :
        ty \in SignalTypes \cup {"HOLD"}}

\* history.  tried: symbols fetched so far in this pass.  emptied: symbols
\* whose fetch in this pass was empty; emptiedPrev: the same for the pass
\* before.  det[s]: bar time of the signal detected when s was last
\* processed (None if none was).  sentTime[s]: bar time of the signal of the
\* latest send_telegram call for s, and sentOk[s] what that call returned.
\* sentFor[s]: calls made for the stamp seen[s] holds.  intr: where an
\* interrupt arrived.  raised: whether a fetch or detection raised.
NoHist ==
    [tried |-> {}, emptied |-> {}, emptiedPrev |-> {}, det |-> <<>>,
     sentTime |-> <<>>, sentOk |-> <<>>, sentFor |-> <<>>,
     intr |-> "no", raised |-> FALSE]

Idle ==
    /\ symbols = <<>> /\ i = 0 /\ seen = <<>> /\ sig = None /\ formatted = None
    /\ session = "none" /\ shutdowns = 0 /\ exitCode = None /\ creds = FALSE
    /\ clock = 1 /\ pass = 0 /\ calls = <<>> /\ sendOk = FALSE /\ hist = NoHist

\* the frames the detector is run on, ending at bar time t
DetectFrames(t) ==
    {MkFrame(c, t) : c \in CloseSeqs(0..(MA_SLOW + 5 + MaxExtra), MaxTail, {1})}

InitSignal ==
    pc = "compute" /\ Idle /\ df \in DetectFrames(clock) /\ PctExact(df.close)

Compute ==
    /\ pc = "compute"
    /\ sig' = compute_signal(df)
    /\ pc' = "computed"
    /\ UNCHANGED <<symbols, i, seen, df, formatted, session, shutdowns, exitCode,
                   creds, clock, pass, calls, sendOk, hist>>

NextSignal == Compute

SpecSignal == InitSignal /\ [][NextSignal]_vars

\* the frames the annotator is run on: one bar or MA_SLOW + 5 bars, flat or
\* with a jump on the last bar, in units of 1.0001, 1.0002, ... and of 100.0
RiskFrames(t) ==
    {MkFrame(ClosesOf(n, 1, <<l>>, u), t) :
        n \in {1, MA_SLOW + 5}, l \in {1, 2},
        u \in {TicksPerUnit + k : k \in 1..MaxEntry} \cup {100 * TicksPerUnit}}

InitRisk ==
    pc = "compute" /\ Idle /\ df \in RiskFrames(clock) /\ PctExact(df.close)

\* format_signal on the signal compute_signal returned for df
Annotate ==
    /\ pc = "computed"
    /\ sig # None
    /\ \E text \in format_signal(1, sig[1], df) : formatted' = Some(text)
    /\ pc' = "annotated"
    /\ UNCHANGED <<symbols, i, seen, df, sig, session, shutdowns, exitCode,
                   creds, clock, pass, calls, sendOk, hist>>

\* format_signal on a signal of any type on the last bar of df
AnnotateAny ==
    /\ pc = "computed"
    /\ \E s \in AnySignals(df) :
          \E text \in format_signal(1, s, df) : formatted' = Some(text)
    /\ pc' = "annotated"
    /\ UNCHANGED <<symbols, i, seen, df, sig, session, shutdowns, exitCode,
                   creds, clock, pass, calls, sendOk, hist>>

NextRisk ==
    \/ Compute
    \/ Annotate
    \/ AnnotateAny

SpecRisk == InitRisk /\ [][NextRisk]_vars

-----------------------------------------------------------------------------
(* main (lines 122-150) with init_mt5, detect_syntx_symbols, get_bars and  *)
(* send_telegram.                                                          *)

\* str(sig.get("time"))
Str(t) == ToString(t)

\* exit statuses: 0 when main returns, EXIT_ERROR stands for the non-zero
\* status of SystemExit("...") and of an uncaught exception
EXIT_OK == 0
EXIT_ERROR == 1

\* get_bars (lines 48-54) on the reply of copy_rates_from_pos: None, or
\* Some(bars)
get_bars(rates) ==
    IF rates = None \/ Len(rates[1].close) = 0 THEN EmptyFrame ELSE rates[1]

\* what the terminal can reply at bar time t: nothing, no bars, or a series
\* that is too short or long enough, flat or with a jump on its last bar
Rates(t) ==
    {None, Some(EmptyFrame)} \cup
    {Some(MkFrame(ClosesOf(n, 1, <<l>>, 1), t)) :
        n \in {1, MA_SLOW + 4, MA_SLOW + 5}, l \in {1, 2}}

\* send_telegram (lines 110-119): reply is the status of the POST, or
\* "error" when requests.post raises
PostReplies == {"200", "500", "error"}

send_telegram(haveCreds, reply) ==
    IF ~haveCreds THEN FALSE ELSE reply = "200"

\* detect_syntx_symbols (lines 36-45): listed[k] tells whether the name of
\* catalog entry k contains one of the keywords
detect_syntx_symbols(listed) ==
    SelectSeq([k \in 1..MaxCatalog |-> k], LAMBDA k : listed[k])

Range(q) == {q[k] : k \in 1..Len(q)}

Init ==
    /\ pc = "init" /\ symbols = <<>> /\ i = 0 /\ seen = <<>> /\ df = EmptyFrame
    /\ sig = None /\ formatted = None /\ session = "none" /\ shutdowns = 0
    /\ exitCode = None /\ creds \in BOOLEAN /\ clock = 1 /\ pass = 0
    /\ calls = <<>> /\ sendOk = FALSE /\ hist = NoHist

\* init_mt5 (lines 26-33), called at line 123
InitMt5 ==
    /\ pc = "init"
    /\ \E ok \in BOOLEAN :
          IF ok
          THEN session' = "open" /\ pc' = "resolve" /\ exitCode' = exitCode
          ELSE session' = session /\ pc' = "exited" /\ exitCode' = Some(EXIT_ERROR)
    /\ UNCHANGED <<symbols, i, seen, df, sig, formatted, shutdowns, creds, clock,
                   pass, calls, sendOk, hist>>

\* lines 124-130
DetectSymbols ==
    /\ pc = "resolve"
    /\ \E listed \in [1..MaxCatalog -> BOOLEAN] :
          LET found == detect_syntx_symbols(listed)
              all   == Range(found)
          IN
          /\ symbols' = found
          /\ IF found = <<>>
             THEN /\ shutdowns' = shutdowns + 1 /\ session' = "closed"
                  /\ exitCode' = Some(EXIT_OK) /\ pc' = "exited"
                  /\ UNCHANGED <<i, seen, pass, calls, hist>>
             ELSE /\ seen' = [s \in all |-> None]
                  /\ calls' = [s \in all |-> 0]
                  /\ hist' = [hist EXCEPT !.det = [s \in all |-> None],
                                           !.sentTime = [s \in all |-> None],
                                           !.sentOk = [s \in all |-> FALSE],
                                           !.sentFor = [s \in all |-> 0]]
                  /\ pc' = "fetch" /\ i' = 1 /\ pass' = 1
                  /\ UNCHANGED <<shutdowns, session, exitCode>>
    /\ UNCHANGED <<df, sig, formatted, creds, clock, sendOk>>

\* the for loop moves to the next symbol, or the pass ends (line 145)
Advance ==
    IF i < Len(symbols) THEN pc' = "fetch" /\ i' = i + 1
    ELSE pc' = "sleep" /\ i' = i

\* the finally clause (line 150) on the way out of the try statement
Leave(code) ==
    /\ shutdowns' = shutdowns + 1 /\ session' = "closed"
    /\ exitCode' = Some(code) /\ pc' = "exited"

\* an emptiness test that never holds
IsEmpty_Never(d) == FALSE

\* a comparison with seen that never matches
AlreadySeen_Never(s, stamp) == FALSE

\* seen left as it is
MarkSeen_Skip(s, stamp) == seen

\* df.empty (line 136)
IsEmpty(d) == Len(d.close) = 0

\* seen[s] == stamp (line 140)
AlreadySeen(s, stamp) == seen[s] = Some(stamp)

\* seen[s] = stamp (line 141)
MarkSeen(s, stamp) == [seen EXCEPT ![s] = Some(stamp)]

\* the history after symbol s was fetched: empty tells whether the fetch
\* was empty, found is the bar time of the signal detected or None
Fetched(s, empty, found) ==
    [hist EXCEPT !.tried = @ \cup {s},
                 !.emptied = IF empty THEN @ \cup {s} ELSE @ \ {s},
                 !.det[s] = found]

\* lines 135-141 for symbols[i] when neither call raises
Step ==
    /\ pc = "fetch"
    /\ LET s == symbols[i] IN
       \E rates \in Rates(clock) :
          LET d == get_bars(rates) IN
          /\ df' = d
          /\ IF IsEmpty(d)
             THEN /\ Advance
                  /\ hist' = Fetched(s, Len(d.close) = 0, None)
                  /\ UNCHANGED <<sig, seen>>
             ELSE /\ sig' = compute_signal(d)
                  /\ IF sig' = None
                     THEN /\ Advance /\ seen' = seen
                          /\ hist' = Fetched(s, Len(d.close) = 0, None)
                     ELSE LET stamp == Str(sig'[1].time)
                              h     == Fetched(s, Len(d.close) = 0, Some(sig'[1].time))
                          IN  IF AlreadySeen(s, stamp)
                              THEN /\ Advance /\ seen' = seen /\ hist' = h
                              ELSE /\ seen' = MarkSeen(s, stamp)
                                   /\ pc' = "notify" /\ i' = i
                                   /\ hist' = [h EXCEPT !.sentFor[s] =
                                                 IF seen'[s] = seen[s] THEN @ ELSE 0]
    /\ UNCHANGED <<symbols, formatted, session, shutdowns, exitCode, creds, clock,
                   pass, calls, sendOk>>

\* lines 135-137 when get_bars or compute_signal raises: nothing in main
\* catches it, the finally clause runs and the exception ends the process
StepRaises ==
    /\ pc = "fetch"
    /\ Leave(EXIT_ERROR)
    /\ hist' = [hist EXCEPT !.raised = TRUE]
    /\ UNCHANGED <<symbols, i, seen, df, sig, formatted, creds, clock, pass, calls,
                   sendOk>>

\* lines 142-144 for symbols[i]
Notify ==
    /\ pc = "notify"
    /\ LET s == symbols[i] IN
       /\ \E text \in format_signal(s, sig[1], df) : formatted' = Some(text)
       /\ \E reply \in PostReplies : sendOk' = send_telegram(creds, reply)
       /\ calls' = [calls EXCEPT ![s] = @ + 1]
       /\ hist' = [hist EXCEPT !.sentFor[s] = @ + 1,
                                !.sentTime[s] = Some(sig[1].time),
                                !.sentOk[s] = sendOk']
    /\ Advance
    /\ UNCHANGED <<symbols, seen, df, sig, session, shutdowns, exitCode, creds, clock,
                   pass>>

\* lines 145-146 and the next turn of while True
Sleep ==
    /\ pc = "sleep"
    /\ pass < MaxPasses
    /\ pass' = pass + 1 /\ i' = 1 /\ pc' = "fetch"
    /\ hist' = [hist EXCEPT !.tried = {}, !.emptied = {}, !.emptiedPrev = hist.emptied]
    /\ UNCHANGED <<symbols, seen, df, sig, formatted, session, shutdowns, exitCode,
                   creds, clock, calls, sendOk>>

\* the terminal closes a bar and opens the next
Tick ==
    /\ pc \in {"fetch", "notify", "sleep"}
    /\ clock < MaxClock
    /\ clock' = clock + 1
    /\ UNCHANGED <<pc, symbols, i, seen, df, sig, formatted, session, shutdowns,
                   exitCode, creds, pass, calls, sendOk, hist>>

\* KeyboardInterrupt inside the try statement (lines 131-150)
InterruptLoop ==
    /\ pc \in {"fetch", "notify", "sleep"}
    /\ Leave(EXIT_OK)
    /\ hist' = [hist EXCEPT !.intr = "loop"]
    /\ UNCHANGED <<symbols, i, seen, df, sig, formatted, creds, clock, pass, calls,
                   sendOk>>

\* KeyboardInterrupt in lines 123-130, which no try statement encloses: the
\* exception ends the process and mt5.shutdown() is not called
InterruptStartup ==
    /\ pc \in {"init", "resolve"}
    /\ pc' = "exited" /\ exitCode' = Some(EXIT_ERROR)
    /\ hist' = [hist EXCEPT !.intr = pc]
    /\ UNCHANGED <<symbols, i, seen, df, sig, formatted, session, shutdowns, creds,
                   clock, pass, calls, sendOk>>

Next ==
    \/ InitMt5
    \/ DetectSymbols
    \/ Step
    \/ StepRaises
    \/ Notify
    \/ Sleep
    \/ Tick
    \/ InterruptLoop
    \/ InterruptStartup

Spec == Init /\ [][Next]_vars

-----------------------------------------------------------------------------
(* Vocabulary of the properties.                                           *)

Cur == symbols[i]

LastBar(d) == Len(d.close)

\* a step of the loop body for symbols[i] that did not raise
StepTaken ==
    /\ pc = "fetch"
    /\ pc' \in {"fetch", "notify", "sleep"}
    /\ <<pc', i'>> # <<pc, i>>

\* a step that ran format_signal and send_telegram for symbols[i]
NotifyTaken == pc = "notify" /\ pc' \in {"fetch", "sleep"}

\* the loop went on after symbols[i]: to the next symbol or to the sleep
WentOn ==
    /\ exitCode' = None
    /\ IF i < Len(symbols) THEN pc' = "fetch" /\ i' = i + 1 ELSE pc' = "sleep"

\* the step fetched a frame on which a signal was detected
Detected == ~(LastBar(df') = 0) /\ sig' # None

\* the step left alone everything a notification touches
NoSideEffects ==
    /\ pc' # "notify"
    /\ UNCHANGED <<seen, calls, formatted, sendOk>>

-----------------------------------------------------------------------------
(* C1: deduplication across passes.  When a symbol is processed and the    *)
(* signal detected carries the latest-bar time of the signal detected when *)
(* the symbol was processed in the pass before, the step has no side       *)
(* effects; when it carries another time, seen[symbol] becomes the new     *)
(* stamp and the notifier is invoked next; and every stamp held in seen    *)
(* has had exactly one notifier call once its notification step is over.   *)
C1_Dedup ==
    /\ [][StepTaken /\ Detected /\ hist.det[Cur] = Some(df'.time[LastBar(df')])
              => NoSideEffects /\ WentOn]_vars
    /\ [][StepTaken /\ Detected /\ hist.det[Cur] # None
                    /\ hist.det[Cur] # Some(df'.time[LastBar(df')])
              => /\ pc' = "notify"
                 /\ seen' = [seen EXCEPT ![Cur] = Some(Str(df'.time[LastBar(df')]))]
                 /\ calls' = calls]_vars
    /\ [][NotifyTaken => calls' = [calls EXCEPT ![Cur] = @ + 1]]_vars
    /\ [](pc \in {"fetch", "sleep"} =>
            \A s \in DOMAIN seen :
                hist.sentFor[s] = IF seen[s] = None THEN 0 ELSE 1)

\* a second pass re-detected the signal of the first: one call was made
C1_Witness_Same ==
    /\ pass = 2 /\ pc = "sleep" /\ clock = 1
    /\ \E s \in DOMAIN seen : hist.det[s] = Some(1) /\ calls[s] = 1

\* ... and a second pass detected a signal with a new time: two calls
C1_Witness ==
    /\ pass = 2 /\ pc = "sleep"
    /\ \E s \in DOMAIN seen :
          /\ hist.det[s] = Some(2) /\ calls[s] = 2 /\ seen[s] = Some(Str(2))

-----------------------------------------------------------------------------
(* C2: per-symbol fault isolation.  When a fetch or a detection raised,    *)
(* the process is still running.                                           *)
C2_FaultIsolation == hist.raised => exitCode = None /\ pc # "exited"

-----------------------------------------------------------------------------
(* C3: a failed notification is non-fatal and never repeated.  While the   *)
(* notifier is about to be invoked, seen[symbol] already holds the stamp   *)
(* of the signal; a notifier call that returns false leaves seen as it is  *)
(* and the loop goes on; and no step starts a notification for a signal    *)
(* whose bar time is the one of the symbol's latest notifier call.         *)
C3_AtMostOnce ==
    /\ [](pc = "notify" => seen[Cur] = Some(Str(df.time[LastBar(df)])))
    /\ [][NotifyTaken /\ ~sendOk' => seen' = seen /\ WentOn]_vars
    /\ [][StepTaken /\ Detected /\ hist.sentTime[Cur] = Some(df'.time[LastBar(df')])
              => pc' # "notify" /\ calls' = calls /\ seen' = seen]_vars

\* in pass 2 a symbol was processed again, its signal still the one whose
\* notification failed in pass 1, and no second call was made
C3_Witness ==
    /\ pass = 2
    /\ \E s \in hist.tried :
          /\ hist.sentTime[s] = Some(1) /\ ~hist.sentOk[s]
          /\ hist.det[s] = Some(1) /\ calls[s] = 1 /\ seen[s] = Some(Str(1))

-----------------------------------------------------------------------------
(* C4: startup failure exit status.  A process that ended before its first *)
(* pass without being interrupted (the session could not be established,   *)
(* or no symbol was found) ended with a non-zero status.                   *)
C4_StartupExit ==
    pc = "exited" /\ pass = 0 /\ hist.intr = "no" => exitCode # Some(EXIT_OK)

-----------------------------------------------------------------------------
(* C6: insufficient history.  On a fetched series of fewer than            *)
(* MA_SLOW + 5 bars the detector returns None, no notification is started  *)
(* and seen is left unchanged.                                             *)
C6_ShortSeries ==
    [][StepTaken /\ LastBar(df') > 0 /\ LastBar(df') < MA_SLOW + 5
          => sig' = None /\ NoSideEffects /\ WentOn]_vars

\* the detector alone, on every drawn series of fewer than MA_SLOW + 5 bars
\* (SpecSignal)
C6_DetectorOnShort ==
    pc = "computed" /\ LastBar(df) < MA_SLOW + 5 => sig = None

\* a series of MA_SLOW + 4 bars with a jump on its last bar was processed
C6_Witness ==
    /\ pc \in {"fetch", "sleep"} /\ hist.tried # {}
    /\ LastBar(df) = MA_SLOW + 4 /\ df.close[LastBar(df)] # df.close[1]
    /\ sig = None

-----------------------------------------------------------------------------
(* C8: empty-fetch skip.  A step whose fetch is empty does not run the     *)
(* detector, starts no notification, leaves seen unchanged and goes on to  *)
(* the next symbol; and every pass fetches every symbol, so the symbol is  *)
(* fetched again in the next pass.                                         *)
C8_EmptySkip ==
    /\ [][StepTaken /\ LastBar(df') = 0
              => sig' = sig /\ NoSideEffects /\ WentOn]_vars
    /\ [](pc = "fetch" => hist.tried = {symbols[k] : k \in 1..(i - 1)})
    /\ [](pc = "sleep" => hist.tried = Range(symbols))

\* a symbol whose fetch was empty in pass 1 was fetched in pass 2, after a
\* signal had been detected for another symbol
C8_Witness ==
    /\ pass = 2
    /\ \E s \in hist.emptiedPrev : s \in hist.tried
    /\ \E s \in DOMAIN seen : seen[s] # None

-----------------------------------------------------------------------------
(* C10: clean termination on interrupt.  A process interrupted after the   *)
(* session was established ended with status 0 and released the session    *)
(* exactly once.                                                           *)
C10_CleanInterrupt ==
    hist.intr \in {"resolve", "loop"} =>
        exitCode = Some(EXIT_OK) /\ shutdowns = 1 /\ session = "closed"


-----------------------------------------------------------------------------
(* The conditions of the detector's contract, stated on the averages and   *)
(* the percent changes themselves (n = the last bar).                      *)

\* maFast[k] - maSlow[k], times MA_FAST * MA_SLOW
MaGap(c, k) == MA_SLOW * RollSum(c, MA_FAST, k) - MA_FAST * RollSum(c, MA_SLOW, k)

CrossUp(c) == MaGap(c, Len(c) - 1) <= 0 /\ MaGap(c, Len(c)) > 0

CrossDown(c) == MaGap(c, Len(c) - 1) >= 0 /\ MaGap(c, Len(c)) < 0

Computed == pc = "computed" /\ Len(df.close) >= MA_SLOW + 5

TypeOf(x) == IF x = None THEN "null" ELSE x[1].type

(* C5: spike precedence.  On a series of at least MA_SLOW + 5 bars whose   *)
(* last bar meets the spike condition and an MA-cross condition, the       *)
(* detector returns one signal, SPIKE_UP when the last percent change is   *)
(* positive and SPIKE_DOWN otherwise, carrying the last close, the percent *)
(* change and the time of the last bar.                                    *)
C5_SpikePrecedence ==
    Computed /\ IsSpike(df.close) /\ (CrossUp(df.close) \/ CrossDown(df.close))
        => /\ sig # None
           /\ sig[1] = [type  |-> IF Pct(df.close, LastBar(df)) > 0
                                  THEN "SPIKE_UP" ELSE "SPIKE_DOWN",
                        price |-> df.close[LastBar(df)],
                        pct   |-> Pct(df.close, LastBar(df)),
                        time  |-> df.time[LastBar(df)]]

\* a spike up on a bar where the fast average crosses above the slow one,
\* and a spike down on a bar where it crosses below
C5_Witness ==
    /\ Computed /\ IsSpike(df.close) /\ CrossUp(df.close)
    /\ TypeOf(sig) = "SPIKE_UP"

C5_Witness_Down ==
    /\ Computed /\ IsSpike(df.close) /\ CrossDown(df.close)
    /\ TypeOf(sig) = "SPIKE_DOWN"

(* C7: crossover correctness.  On a series of at least MA_SLOW + 5 bars    *)
(* whose last bar is not a spike, the detector returns BUY when the fast   *)
(* average was at or below the slow one on the bar before and is above it  *)
(* on the last bar, SELL when it was at or above and is below, and None in *)
(* every other case.                                                       *)
C7_Crossover ==
    Computed /\ ~IsSpike(df.close)
        => TypeOf(sig) = IF CrossUp(df.close) THEN "BUY"
                         ELSE IF CrossDown(df.close) THEN "SELL"
                         ELSE "null"

\* a BUY on a bar that moved, the averages equal on the bar before
C7_Witness ==
    /\ Computed /\ TypeOf(sig) = "BUY"
    /\ MaGap(df.close, LastBar(df) - 1) = 0
    /\ Pct(df.close, LastBar(df)) # 0

C7_Witness_Sell ==
    /\ Computed /\ TypeOf(sig) = "SELL"
    /\ MaGap(df.close, LastBar(df) - 1) = 0

C7_Witness_Null ==
    /\ Computed /\ sig = None /\ Pct(df.close, LastBar(df)) # 0

-----------------------------------------------------------------------------
(* C9: risk levels.                                                        *)

Annotated == pc = "annotated" /\ formatted # None

Msg == formatted[1]

Entry == df.close[LastBar(df)]

\* level * d - entry * k, for level in result units and entry in ticks: the
\* distance of level from entry * k / d, times d
Off(level, entry, k, d) == (level - (entry \div d) * k) * d - (entry % d) * k

\* the factors of the rule table, times RISK_PCT_DEN, per result unit
SlFactor(type) ==
    IF type \in {"BUY", "SPIKE_UP"} THEN OutPerTick * (RISK_PCT_DEN - RISK_PCT_NUM)
    ELSE IF type \in {"SELL", "SPIKE_DOWN"} THEN OutPerTick * (RISK_PCT_DEN + RISK_PCT_NUM)
    ELSE OutPerTick * RISK_PCT_DEN

TpFactor(type) ==
    IF type \in {"BUY", "SPIKE_UP"} THEN OutPerTick * (RISK_PCT_DEN + 2 * RISK_PCT_NUM)
    ELSE IF type \in {"SELL", "SPIKE_DOWN"} THEN OutPerTick * (RISK_PCT_DEN - 2 * RISK_PCT_NUM)
    ELSE OutPerTick * RISK_PCT_DEN

(* C9 as stated: the levels returned are exactly entry * (1 -/+ RISK_PCT)  *)
(* and entry * (1 +/- 2 * RISK_PCT).                                       *)
C9_ExactLevels ==
    Annotated =>
        /\ Off(Msg.sl, Entry, SlFactor(Msg.type), RISK_PCT_DEN) = 0
        /\ Off(Msg.tp, Entry, TpFactor(Msg.type), RISK_PCT_DEN) = 0

(* C9 amended: the levels returned are entry * (1 -/+ RISK_PCT) and        *)
(* entry * (1 +/- 2 * RISK_PCT) rounded to 5 decimal places (entry for any *)
(* other type), entry being the close of the last bar of the series; for   *)
(* entry 100.0 and BUY they are 99.5 and 101.0.                            *)
C9_RoundedLevels ==
    Annotated =>
        /\ 2 * Abs(Off(Msg.sl, Entry, SlFactor(Msg.type), RISK_PCT_DEN)) <= RISK_PCT_DEN
        /\ 2 * Abs(Off(Msg.tp, Entry, TpFactor(Msg.type), RISK_PCT_DEN)) <= RISK_PCT_DEN
        /\ Msg.entry = Entry
        /\ Msg.type \notin SignalTypes => Msg.sl = Entry * OutPerTick /\ Msg.tp = Msg.sl
        /\ Entry = 100 * TicksPerUnit /\ Msg.type = "BUY"
              => Msg.sl = (995 * (10 ^ ROUND_DIGITS)) \div 10
                 /\ Msg.tp = 101 * (10 ^ ROUND_DIGITS)

\* a BUY at an entry of 1.0003: the stop-loss 0.9952985 is returned as
\* 0.99530 and the take-profit 1.010303 as 1.01030
C9_Witness ==
    /\ Annotated /\ Msg.type = "BUY" /\ Entry = TicksPerUnit + 3
    /\ Msg.sl = 99530 /\ Msg.tp = 101030

\* the worked example: BUY at 100.0
C9_Witness_Example ==
    /\ Annotated /\ Msg.type = "BUY" /\ Entry = 100 * TicksPerUnit

====
